---- MODULE Spec2Model ----
(***************************************************************************)
(* A model of KeyboardKeyEmbedderHandler                                   *)
(* (shell/platform/windows/keyboard_key_embedder_handler.cc): the          *)
(* translation of raw Windows key messages into key events for the host,   *)
(* the press-state table, the critical-key registry with its two           *)
(* synchronization passes, and the ledger of pending responses.            *)
(*                                                                         *)
(* A 64-bit key identifier is the pair <<plane, value>>: value is the low  *)
(* 32 bits and plane the bits above them, so that the identifier 0 is      *)
(* <<0, 0>> and ApplyPlaneToId replaces the plane and keeps the value.     *)
(***************************************************************************)
EXTENDS Integers, Sequences, FiniteSets, TLC

VARIABLES
    pressingRecords_,    \* std::map physical key -> logical key
    critical_keys_,      \* std::map virtual key -> CriticalKey
    response_id_,        \* the last response id handed out
    pending_responses_,  \* std::map response id -> PendingResponse (its callback)
    sent_any_events,     \* set by SendEvent, cleared at the start of KeyboardHook
    aborted,             \* the process was stopped by a failed assert or a fault
    inflight,            \* host side: response ids dispatched and not acknowledged
    hostDown,            \* host side: physical keys whose last event was Down/Repeat
    hostLogical,         \* host side: key held down -> logical key of its last Down/Repeat
    events,              \* the events the last operation handed to perform_send_event_
    callbacks,           \* the invocations of caller callbacks by the last operation
    delivered,           \* response id -> number of invocations of its callback
    last                 \* what the last operation was

vars == <<pressingRecords_, critical_keys_, response_id_, pending_responses_,
          sent_any_events, aborted, inflight, hostDown, hostLogical, events,
          callbacks, delivered, last>>

(***************************************************************************)
(* Bounds of the model.                                                    *)
(***************************************************************************)
\* ProcessKey is not taken once response_id_ has reached this value.
MaxResponseId == 4

(***************************************************************************)
(* Windows constants used by the handler.                                  *)
(***************************************************************************)
VK_CAPITAL == 20
VK_NUMLOCK == 144
VK_SCROLL == 145
VK_LSHIFT == 160
VK_RSHIFT == 161
VK_LCONTROL == 162
VK_RCONTROL == 163
VK_PROCESSKEY == 229
WM_KEYDOWN == 256
WM_KEYUP == 257
WM_SYSKEYDOWN == 260
WM_SYSKEYUP == 261

kStateMaskToggled == 1
kStateMaskPressed == 128

(***************************************************************************)
(* Identifiers and the std::map operations the handler uses.               *)
(***************************************************************************)
Id(plane, value) == <<plane, value>>
ZeroId == Id(0, 0)
\* a key code (int) converted to uint64_t
IdOfInt(n) == Id(0, n)

MapHas(m, k) == k \in DOMAIN m
MapPut(m, k, v) == [x \in (DOMAIN m) \cup {k} |-> IF x = k THEN v ELSE m[x]]
MapErase(m, k) == [x \in (DOMAIN m) \ {k} |-> m[x]]
EmptyMap == [x \in {} |-> ZeroId]

(***************************************************************************)
(* Character Codec.                                                        *)
(***************************************************************************)
RECURSIVE Pow2(_)
Pow2(n) == IF n = 0 THEN 1 ELSE 2 * Pow2(n - 1)

GetBit(ch, start, end) == (ch \div Pow2(end)) % Pow2(start - end)

\* push_back of an int into a std::string keeps the low 8 bits
Byte(n) == n % 256

ConvertChar32ToUtf8(ch) ==
    IF ch <= 127 THEN <<Byte(ch)>>
    ELSE IF ch <= 2047 THEN
        <<Byte(192 + GetBit(ch, 11, 6)), Byte(128 + GetBit(ch, 6, 0))>>
    ELSE IF ch <= 65535 THEN
        <<Byte(224 + GetBit(ch, 16, 12)), Byte(128 + GetBit(ch, 12, 6)),
          Byte(128 + GetBit(ch, 6, 0))>>
    ELSE
        <<Byte(240 + GetBit(ch, 21, 18)), Byte(128 + GetBit(ch, 18, 12)),
          Byte(128 + GetBit(ch, 12, 6)), Byte(128 + GetBit(ch, 6, 0))>>

ConvertUtf32ToUtf8_(ch) == IF ch = 0 THEN <<>> ELSE ConvertChar32ToUtf8(ch)

empty_character == <<>>

\* A raw character is [dead, code]: bit 31 (the dead-key flag) and the rest.
UndeadChar(character) == character.code

(***************************************************************************)
(* Key Identity Resolver.                                                  *)
(***************************************************************************)
unicodePlane == 0
windowsPlane == 22

\* The static tables (generated data): the entries of the keys of the model.
windowsToPhysicalMap_ ==
    (58 :> Id(0, 458809)) @@      \* CapsLock
    (42 :> Id(0, 458977)) @@      \* ShiftLeft
    (54 :> Id(0, 458981)) @@      \* ShiftRight
    (29 :> Id(0, 458976)) @@      \* ControlLeft
    (57373 :> Id(0, 458980)) @@   \* ControlRight
    (70 :> Id(0, 458823)) @@      \* ScrollLock
    (57413 :> Id(0, 458835)) @@   \* NumLock
    (30 :> Id(0, 458756))         \* KeyA

scanCodeToLogicalMap_ ==
    (82 :> Id(2, 560))            \* Numpad0

windowsToLogicalMap_ ==
    (VK_CAPITAL :> Id(1, 260)) @@
    (VK_NUMLOCK :> Id(1, 266)) @@
    (VK_SCROLL :> Id(1, 268)) @@
    (VK_LSHIFT :> Id(2, 258)) @@
    (VK_RSHIFT :> Id(2, 259)) @@
    (VK_LCONTROL :> Id(2, 256)) @@
    (VK_RCONTROL :> Id(2, 257))

\* MapVirtualKey(virtual_key, MAPVK_VK_TO_VSC) of the operating system
MapVirtualKey ==
    (VK_CAPITAL :> 58) @@ (VK_NUMLOCK :> 69) @@ (VK_SCROLL :> 70) @@
    (VK_LSHIFT :> 42) @@ (VK_RSHIFT :> 54) @@ (VK_LCONTROL :> 29) @@
    (VK_RCONTROL :> 29)

isEasciiPrintable(codeUnit) ==
    (codeUnit <= 127 /\ codeUnit >= 32) \/ (codeUnit <= 255 /\ codeUnit >= 128)

toLower(n) ==
    IF n >= 65 /\ n <= 90 THEN n - 65 + 97
    ELSE IF n >= 192 /\ n <= 222 /\ n # 247 THEN n - 192 + 224
    ELSE n

normalizeScancode(windowsScanCode, extended) ==
    (windowsScanCode % 256) + (IF extended THEN 57344 ELSE 0)

\* (id & valueMask) | plane, for an id below 2^32
ApplyPlaneToId(id, plane) == Id(plane, id)

GetPhysicalKey(scancode, extended) ==
    LET chromiumScancode == normalizeScancode(scancode, extended)
    IN  IF chromiumScancode \in DOMAIN windowsToPhysicalMap_
        THEN windowsToPhysicalMap_[chromiumScancode]
        ELSE ApplyPlaneToId(scancode, windowsPlane)

GetLogicalKey(key, extended, scancode) ==
    IF key = VK_PROCESSKEY THEN IdOfInt(VK_PROCESSKEY)
    ELSE IF normalizeScancode(scancode, extended) \in DOMAIN scanCodeToLogicalMap_
    THEN scanCodeToLogicalMap_[normalizeScancode(scancode, extended)]
    ELSE IF key \in DOMAIN windowsToLogicalMap_
    THEN windowsToLogicalMap_[key]
    ELSE IF isEasciiPrintable(key)
    THEN ApplyPlaneToId(toLower(key), unicodePlane)
    ELSE ApplyPlaneToId(toLower(key), windowsPlane)

(***************************************************************************)
(* Events and the working state of one KeyboardHook call.                  *)
(*                                                                         *)
(* An entry of a dispatch log is [event, response]: the FlutterKeyEvent    *)
(* and the response id behind the user_data pointer, 0 for a null          *)
(* callback.  A working state st is [records, critical, sent, any]: the    *)
(* press-state table, the registry, the log and sent_any_events.           *)
(***************************************************************************)
KeyEvent(type, physical, logical, character, synthesized) ==
    [type |-> type, physical |-> physical, logical |-> logical,
     character |-> character, synthesized |-> synthesized]

\* SynthesizeSimpleEvent with the synthesized flag left clear.
SynthesizeSimpleEvent_NotFlagged(type, physical, logical, character) ==
    KeyEvent(type, physical, logical, character, FALSE)

SynthesizeSimpleEvent(type, physical, logical, character) ==
    KeyEvent(type, physical, logical, character, TRUE)

SendEvent(st, event, response) ==
    [st EXCEPT !.sent = Append(@, [event |-> event, response |-> response]),
               !.any = TRUE]

\* state & mask, as a bool, for a one-bit mask
HasMask(state, mask) == (state \div mask) % 2 = 1

\* critical_keys_ is a std::map: it is walked in the order of the virtual keys
CriticalOrder ==
    <<VK_CAPITAL, VK_NUMLOCK, VK_SCROLL, VK_LSHIFT, VK_RSHIFT, VK_LCONTROL,
      VK_RCONTROL>>

CriticalVKs == {CriticalOrder[i] : i \in 1..Len(CriticalOrder)}

UpdateLastSeenCritialKey(critical, virtual_key, physical_key, logical_key) ==
    IF virtual_key \in DOMAIN critical
    THEN [critical EXCEPT ![virtual_key].physical_key = physical_key,
                          ![virtual_key].logical_key = logical_key]
    ELSE critical

(***************************************************************************)
(* Synchronization Engine: the body of each loop, for one critical key,    *)
(* and the loops.  os is get_key_state_: virtual key -> SHORT.             *)
(***************************************************************************)
\* ToggledStep without the flip of the tracked toggle on the key's own down.
ToggledStep_NoAnticipation(st, virtual_key, this_virtual_key, is_down_event, os) ==
    LET key_info == st.critical[virtual_key]
        should_toggled == HasMask(os[virtual_key], kStateMaskToggled)
        released ==
            IF MapHas(st.records, key_info.physical_key)
            THEN SendEvent(st,
                     SynthesizeSimpleEvent("Up", key_info.physical_key,
                                           key_info.logical_key, empty_character),
                     0)
            ELSE st
        pressed ==
            SendEvent([released EXCEPT !.records =
                           MapPut(@, key_info.physical_key, key_info.logical_key)],
                SynthesizeSimpleEvent("Down", key_info.physical_key,
                                      key_info.logical_key, empty_character),
                0)
        synced == IF key_info.toggled_on # should_toggled THEN pressed ELSE st
    IN  IF key_info.physical_key = ZeroId THEN st
        ELSE IF ~key_info.check_toggled THEN st
        ELSE [synced EXCEPT !.critical[virtual_key].toggled_on = should_toggled]

\* ToggledStep without the release of a key that is recorded pressed.
ToggledStep_NoRelease(st, virtual_key, this_virtual_key, is_down_event, os) ==
    LET key_info == st.critical[virtual_key]
        should_toggled == HasMask(os[virtual_key], kStateMaskToggled)
        flipped == IF virtual_key = this_virtual_key /\ is_down_event
                   THEN ~key_info.toggled_on
                   ELSE key_info.toggled_on
        pressed ==
            SendEvent([st EXCEPT !.records =
                           MapPut(@, key_info.physical_key, key_info.logical_key)],
                SynthesizeSimpleEvent("Down", key_info.physical_key,
                                      key_info.logical_key, empty_character),
                0)
        synced == IF flipped # should_toggled THEN pressed ELSE st
    IN  IF key_info.physical_key = ZeroId THEN st
        ELSE IF ~key_info.check_toggled THEN st
        ELSE [synced EXCEPT !.critical[virtual_key].toggled_on = should_toggled]

ToggledStep(st, virtual_key, this_virtual_key, is_down_event, os) ==
    LET key_info == st.critical[virtual_key]
        should_toggled == HasMask(os[virtual_key], kStateMaskToggled)
        flipped == IF virtual_key = this_virtual_key /\ is_down_event
                   THEN ~key_info.toggled_on
                   ELSE key_info.toggled_on
        released ==
            IF MapHas(st.records, key_info.physical_key)
            THEN SendEvent(st,
                     SynthesizeSimpleEvent("Up", key_info.physical_key,
                                           key_info.logical_key, empty_character),
                     0)
            ELSE st
        pressed ==
            SendEvent([released EXCEPT !.records =
                           MapPut(@, key_info.physical_key, key_info.logical_key)],
                SynthesizeSimpleEvent("Down", key_info.physical_key,
                                      key_info.logical_key, empty_character),
                0)
        synced == IF flipped # should_toggled THEN pressed ELSE st
    IN  IF key_info.physical_key = ZeroId THEN st
        ELSE IF ~key_info.check_toggled THEN st
        ELSE [synced EXCEPT !.critical[virtual_key].toggled_on = should_toggled]

RECURSIVE ToggledLoop(_, _, _, _, _)
ToggledLoop(i, st, this_virtual_key, is_down_event, os) ==
    IF i > Len(CriticalOrder) THEN st
    ELSE ToggledLoop(i + 1,
             ToggledStep(st, CriticalOrder[i], this_virtual_key, is_down_event, os),
             this_virtual_key, is_down_event, os)

SynchronizeCritialToggledStates(st, this_virtual_key, is_down_event, os) ==
    ToggledLoop(1, st, this_virtual_key, is_down_event, os)

\* PressedStep with the synthesized event sent and the table left as it was.
PressedStep_TableNotUpdated(st, virtual_key, this_virtual_key, pressed_state_will_change, os) ==
    LET key_info == st.critical[virtual_key]
        recorded_pressed == MapHas(st.records, key_info.physical_key)
        state_pressed == HasMask(os[virtual_key], kStateMaskPressed)
        should_pressed ==
            IF virtual_key = this_virtual_key /\ pressed_state_will_change
            THEN ~state_pressed
            ELSE state_pressed
    IN  IF key_info.physical_key = ZeroId THEN st
        ELSE IF ~key_info.check_pressed THEN st
        ELSE IF recorded_pressed # should_pressed
        THEN SendEvent(st,
                 SynthesizeSimpleEvent(IF recorded_pressed THEN "Up" ELSE "Down",
                                       key_info.physical_key, key_info.logical_key,
                                       empty_character),
                 0)
        ELSE st

PressedStep(st, virtual_key, this_virtual_key, pressed_state_will_change, os) ==
    LET key_info == st.critical[virtual_key]
        recorded_pressed == MapHas(st.records, key_info.physical_key)
        state_pressed == HasMask(os[virtual_key], kStateMaskPressed)
        should_pressed ==
            IF virtual_key = this_virtual_key /\ pressed_state_will_change
            THEN ~state_pressed
            ELSE state_pressed
        updated ==
            [st EXCEPT !.records =
                IF recorded_pressed
                THEN MapErase(@, key_info.physical_key)
                ELSE MapPut(@, key_info.physical_key, key_info.logical_key)]
    IN  IF key_info.physical_key = ZeroId THEN st
        ELSE IF ~key_info.check_pressed THEN st
        ELSE IF recorded_pressed # should_pressed
        THEN SendEvent(updated,
                 SynthesizeSimpleEvent(IF recorded_pressed THEN "Up" ELSE "Down",
                                       key_info.physical_key, key_info.logical_key,
                                       empty_character),
                 0)
        ELSE st

RECURSIVE PressedLoop(_, _, _, _, _)
PressedLoop(i, st, this_virtual_key, pressed_state_will_change, os) ==
    IF i > Len(CriticalOrder) THEN st
    ELSE PressedLoop(i + 1,
             PressedStep(st, CriticalOrder[i], this_virtual_key,
                         pressed_state_will_change, os),
             this_virtual_key, pressed_state_will_change, os)

SynchronizeCritialPressedStates(st, this_virtual_key, pressed_state_will_change, os) ==
    PressedLoop(1, st, this_virtual_key, pressed_state_will_change, os)

(***************************************************************************)
(* KeyboardHookImpl.                                                       *)
(***************************************************************************)
\* The outcome of the classification of a transition: an event to dispatch,
\* with its type, its character, the record the physical key is to have
\* afterwards (ZeroId: none) and its logical key; or a transition to ignore.
Dispatch(type, character_bytes, eventual_logical_record, result_logical_key) ==
    [ignored |-> FALSE, type |-> type, character_bytes |-> character_bytes,
     eventual_logical_record |-> eventual_logical_record,
     result_logical_key |-> result_logical_key]

Ignore(type) ==
    [ignored |-> TRUE, type |-> type, character_bytes |-> empty_character,
     eventual_logical_record |-> ZeroId, result_logical_key |-> ZeroId]

\* Classify with the repeat taking the freshly resolved logical key.
Classify_RepeatResolvesAgain(logical_key, is_physical_down, was_down, had_record, last_logical_record, character) ==
    IF is_physical_down
    THEN IF had_record
         THEN IF was_down
              THEN Dispatch("Repeat", ConvertUtf32ToUtf8_(character),
                            logical_key, logical_key)
              ELSE Ignore("DuplicateDown")
         ELSE Dispatch("Down", ConvertUtf32ToUtf8_(character),
                       logical_key, logical_key)
    ELSE IF last_logical_record = ZeroId
         THEN Ignore("StaleUp")
         ELSE Dispatch("Up", empty_character, ZeroId, last_logical_record)

\* Classify with every down on a recorded key taken as a repeat.
Classify_DuplicateRepeats(logical_key, is_physical_down, was_down, had_record, last_logical_record, character) ==
    IF is_physical_down
    THEN IF had_record
         THEN Dispatch("Repeat", ConvertUtf32ToUtf8_(character),
                       last_logical_record, last_logical_record)
         ELSE Dispatch("Down", ConvertUtf32ToUtf8_(character),
                       logical_key, logical_key)
    ELSE IF last_logical_record = ZeroId
         THEN Ignore("StaleUp")
         ELSE Dispatch("Up", empty_character, ZeroId, last_logical_record)

\* Classify with the up of an unrecorded key dispatched with the fresh key.
Classify_StaleUpDispatched(logical_key, is_physical_down, was_down, had_record, last_logical_record, character) ==
    IF is_physical_down
    THEN IF had_record
         THEN IF was_down
              THEN Dispatch("Repeat", ConvertUtf32ToUtf8_(character),
                            last_logical_record, last_logical_record)
              ELSE Ignore("DuplicateDown")
         ELSE Dispatch("Down", ConvertUtf32ToUtf8_(character),
                       logical_key, logical_key)
    ELSE IF last_logical_record = ZeroId
         THEN Dispatch("Up", empty_character, ZeroId, logical_key)
         ELSE Dispatch("Up", empty_character, ZeroId, last_logical_record)

\* Classify with the up carrying the character of the raw input.
Classify_UpKeepsCharacter(logical_key, is_physical_down, was_down, had_record, last_logical_record, character) ==
    IF is_physical_down
    THEN IF had_record
         THEN IF was_down
              THEN Dispatch("Repeat", ConvertUtf32ToUtf8_(character),
                            last_logical_record, last_logical_record)
              ELSE Ignore("DuplicateDown")
         ELSE Dispatch("Down", ConvertUtf32ToUtf8_(character),
                       logical_key, logical_key)
    ELSE IF last_logical_record = ZeroId
         THEN Ignore("StaleUp")
         ELSE Dispatch("Up", ConvertUtf32ToUtf8_(character), ZeroId,
                       last_logical_record)

\* Lines 182-223.
Classify(logical_key, is_physical_down, was_down, had_record, last_logical_record, character) ==
    IF is_physical_down
    THEN IF had_record
         THEN IF was_down
              THEN Dispatch("Repeat", ConvertUtf32ToUtf8_(character),
                            last_logical_record, last_logical_record)
              ELSE Ignore("DuplicateDown")
         ELSE Dispatch("Down", ConvertUtf32ToUtf8_(character),
                       logical_key, logical_key)
    ELSE IF last_logical_record = ZeroId
         THEN Ignore("StaleUp")
         ELSE Dispatch("Up", empty_character, ZeroId, last_logical_record)

\* IsImeKey with the filter left out.
IsImeKey_Never(c) == FALSE

\* Line 225: the transitions that are left to the IME.
IsImeKey(c) == c.result_logical_key = IdOfInt(VK_PROCESSKEY)

\* Lines 234-252: the registry update and the two synchronization passes.
Synchronize(st, key, physical_key, c, os) ==
    LET seen == [st EXCEPT !.critical =
                    UpdateLastSeenCritialKey(@, key, physical_key,
                                             c.result_logical_key)]
        toggled == SynchronizeCritialToggledStates(seen, key, c.type = "Down", os)
    IN  SynchronizeCritialPressedStates(toggled, key, c.type # "Repeat", os)

\* Lines 254-260: the press-state table after the primary event.  The entry
\* to erase is asserted to be there; without it the erase is of end().
RecordAfter(records, physical_key, eventual_logical_record) ==
    IF eventual_logical_record # ZeroId
    THEN MapPut(records, physical_key, eventual_logical_record)
    ELSE MapErase(records, physical_key)

\* The callback invocations of an ignored transition (callback(true); return).
IgnoredCallbacks == <<[handled |-> TRUE, response |-> 0, entry_present |-> FALSE]>>

\* The callback invocations of KeyboardHookImpl itself for a transition that
\* is dispatched: none, the callback is moved into the pending response.
DispatchedCallbacks == <<>>

\* NextResponseId without the increment.
NextResponseId_Same(id) == id

\* Lines 275-276: the response id of the next primary event.
NextResponseId(id) == id + 1

\* The result of KeyboardHookImpl: the working state after it, the ledger,
\* the callbacks it invoked, the response id it registered (0: none),
\* whether the entry to erase at line 258 was missing, and the working state
\* at that line (the passes have run, nothing after them has).
KeyboardHookImpl(key, scancode, action, character, extended, was_down, os) ==
    LET physical_key == GetPhysicalKey(scancode, extended)
        logical_key == GetLogicalKey(key, extended, scancode)
        is_physical_down == action = WM_KEYDOWN \/ action = WM_SYSKEYDOWN
        had_record == MapHas(pressingRecords_, physical_key)
        last_logical_record ==
            IF had_record THEN pressingRecords_[physical_key] ELSE ZeroId
        c == Classify(logical_key, is_physical_down, was_down, had_record,
                      last_logical_record, UndeadChar(character))
        st0 == [records |-> pressingRecords_, critical |-> critical_keys_,
                sent |-> <<>>, any |-> FALSE]
        ignored(type) ==
            [st |-> st0, type |-> type, response_id_ |-> response_id_,
             pending |-> pending_responses_, callbacks |-> IgnoredCallbacks,
             registered |-> 0, missing |-> FALSE, synced |-> st0]
        st3 == Synchronize(st0, key, physical_key, c, os)
        missing == c.eventual_logical_record = ZeroId
                   /\ ~MapHas(st3.records, physical_key)
        st4 == [st3 EXCEPT !.records =
                   RecordAfter(@, physical_key, c.eventual_logical_record)]
        response_id == NextResponseId(response_id_)
        key_data == KeyEvent(c.type, physical_key, c.result_logical_key,
                             c.character_bytes, FALSE)
    IN  IF c.ignored THEN ignored(c.type)
        ELSE IF IsImeKey(c) THEN ignored("Ime")
        ELSE [st |-> SendEvent(st4, key_data, response_id),
              type |-> c.type,
              response_id_ |-> response_id,
              pending |-> MapPut(pending_responses_, response_id,
                                 [response_id |-> response_id]),
              callbacks |-> DispatchedCallbacks,
              registered |-> response_id,
              missing |-> missing,
              synced |-> st3]

(***************************************************************************)
(* KeyboardHook: the outer entry point, with the neutral event.            *)
(***************************************************************************)
empty_event == KeyEvent("Down", ZeroId, ZeroId, empty_character, FALSE)

IsNeutral(entry) == entry.event.physical = ZeroId /\ entry.event.logical = ZeroId

\* WithNeutral with the neutral event left out.
WithNeutral_Never(st) == st

WithNeutral(st) == IF ~st.any THEN SendEvent(st, empty_event, 0) ELSE st

\* The host's view of which physical keys are down after a dispatch log.
RECURSIVE Replay(_, _)
Replay(down, log) ==
    IF log = <<>> THEN down
    ELSE LET e == Head(log)
         IN  Replay(IF IsNeutral(e) THEN down
                    ELSE IF e.event.type = "Up" THEN down \ {e.event.physical}
                    ELSE down \cup {e.event.physical},
                    Tail(log))

\* The host's view of the logical key under which each physical key is held
\* down: that of its last Down or Repeat, until an Up.
RECURSIVE ReplayLogical(_, _)
ReplayLogical(logical, log) ==
    IF log = <<>> THEN logical
    ELSE LET e == Head(log)
         IN  ReplayLogical(IF IsNeutral(e) THEN logical
                           ELSE IF e.event.type = "Up"
                           THEN MapErase(logical, e.event.physical)
                           ELSE MapPut(logical, e.event.physical, e.event.logical),
                           Tail(log))

Responses(log) == {log[i].response : i \in 1..Len(log)} \ {0}

(***************************************************************************)
(* The inputs of the model.                                                *)
(***************************************************************************)
NoChar == [dead |-> FALSE, code |-> 0]

\* The keys pressed: caps lock, left shift, A (with a dead-key character of
\* two UTF-8 bytes, or with one of four bytes), the key of A and the left
\* shift key while an IME owns them (VK_PROCESSKEY), and the left shift key
\* reported under the undistinguished VK_SHIFT (16).
RawKeys ==
    { [key |-> VK_CAPITAL, scancode |-> 58, extended |-> FALSE, character |-> NoChar],
      [key |-> VK_LSHIFT, scancode |-> 42, extended |-> FALSE, character |-> NoChar],
      [key |-> 65, scancode |-> 30, extended |-> FALSE,
       character |-> [dead |-> TRUE, code |-> 233]],
      [key |-> 65, scancode |-> 30, extended |-> FALSE,
       character |-> [dead |-> FALSE, code |-> 128512]],
      [key |-> VK_PROCESSKEY, scancode |-> 30, extended |-> FALSE, character |-> NoChar],
      [key |-> VK_PROCESSKEY, scancode |-> 42, extended |-> FALSE, character |-> NoChar],
      [key |-> 16, scancode |-> 42, extended |-> FALSE, character |-> NoChar] }

\* WM_SYSKEYDOWN and WM_SYSKEYUP are handled as WM_KEYDOWN and WM_KEYUP are.
Actions == {WM_KEYDOWN, WM_KEYUP}

\* The critical keys that are tracked for their toggled state (InitCriticalKeys).
ToggleVKs == {VK_CAPITAL, VK_SCROLL, VK_NUMLOCK}

\* The critical keys whose OS state varies; the OS reports 0 for the others.
Observed == {VK_CAPITAL, VK_LSHIFT}

\* What GetKeyState can answer for a virtual key: the toggled bit of a key
\* that is not tracked for it is never read, and is left 0.
KeyStateValues(vk) ==
    IF vk \notin Observed THEN {0}
    ELSE IF vk \in ToggleVKs
    THEN {0, kStateMaskToggled, kStateMaskPressed, kStateMaskPressed + kStateMaskToggled}
    ELSE {0, kStateMaskPressed}

KeyStates ==
    {[vk \in CriticalVKs |-> IF vk \in Observed THEN f[vk] ELSE 0] :
        f \in {g \in [Observed -> {0, 1, 128, 129}] :
                  \A vk \in Observed : g[vk] \in KeyStateValues(vk)}}

\* get_key_state_ is called by the synchronization passes only: a transition
\* that returns before them reads no key state (the model then takes the
\* state in which every key reads 0).
NoKeyState == [vk \in CriticalVKs |-> 0]

KeyStatesRead(key, scancode, action, extended, was_down) ==
    LET physical_key == GetPhysicalKey(scancode, extended)
        had_record == MapHas(pressingRecords_, physical_key)
        c == Classify(GetLogicalKey(key, extended, scancode),
                      action = WM_KEYDOWN \/ action = WM_SYSKEYDOWN, was_down,
                      had_record,
                      IF had_record THEN pressingRecords_[physical_key] ELSE ZeroId,
                      0)
    IN  IF c.ignored \/ IsImeKey(c) THEN {NoKeyState} ELSE KeyStates

\* was_down is read at one place only, the down branch of a physical key
\* with a record: any other transition takes it FALSE.
WasDownRead(scancode, action, extended) ==
    IF /\ action = WM_KEYDOWN \/ action = WM_SYSKEYDOWN
       /\ MapHas(pressingRecords_, GetPhysicalKey(scancode, extended))
    THEN BOOLEAN ELSE {FALSE}

(***************************************************************************)
(* Construction.                                                           *)
(***************************************************************************)
createCheckedKey(virtual_key, extended, check_pressed, check_toggled, os) ==
    [physical_key |-> GetPhysicalKey(MapVirtualKey[virtual_key], extended),
     logical_key |-> GetLogicalKey(virtual_key, extended, MapVirtualKey[virtual_key]),
     check_pressed |-> check_pressed \/ check_toggled,
     check_toggled |-> check_toggled,
     toggled_on |-> IF check_toggled
                    THEN HasMask(os[virtual_key], kStateMaskToggled)
                    ELSE FALSE]

InitCriticalKeys(os) ==
    (VK_LSHIFT :> createCheckedKey(VK_LSHIFT, FALSE, TRUE, FALSE, os)) @@
    (VK_RSHIFT :> createCheckedKey(VK_RSHIFT, FALSE, TRUE, FALSE, os)) @@
    (VK_LCONTROL :> createCheckedKey(VK_LCONTROL, FALSE, TRUE, FALSE, os)) @@
    (VK_RCONTROL :> createCheckedKey(VK_RCONTROL, TRUE, TRUE, FALSE, os)) @@
    (VK_CAPITAL :> createCheckedKey(VK_CAPITAL, FALSE, TRUE, TRUE, os)) @@
    (VK_SCROLL :> createCheckedKey(VK_SCROLL, FALSE, TRUE, TRUE, os)) @@
    (VK_NUMLOCK :> createCheckedKey(VK_NUMLOCK, TRUE, TRUE, TRUE, os))

NoOp ==
    [op |-> "init", key |-> 0, physical |-> ZeroId, logical |-> ZeroId,
     character |-> NoChar, down |-> FALSE, was_down |-> FALSE, os |-> <<>>, type |-> "",
     had_record |-> FALSE, missing |-> FALSE, response |-> 0,
     handled |-> FALSE]

Init ==
    /\ \E os \in KeyStates : critical_keys_ = InitCriticalKeys(os)
    /\ pressingRecords_ = EmptyMap
    /\ response_id_ = 1
    /\ pending_responses_ = EmptyMap
    /\ sent_any_events = FALSE
    /\ aborted = FALSE
    /\ inflight = {}
    /\ hostDown = {}
    /\ hostLogical = EmptyMap
    /\ events = <<>>
    /\ callbacks = <<>>
    /\ delivered = EmptyMap
    /\ last = NoOp

(***************************************************************************)
(* The operations.                                                         *)
(***************************************************************************)
\* KeyboardHook (ProcessKey) on one raw input, under one OS key state.  When
\* the entry to erase is missing, the assert stops a debug build; a release
\* build erases end(), which is undefined: it faults, or leaves the table.
KeyboardHook ==
    /\ ~aborted
    /\ response_id_ < MaxResponseId
    /\ \E raw \in RawKeys, action \in Actions :
       \E was_down \in WasDownRead(raw.scancode, action, raw.extended) :
       \E os \in KeyStatesRead(raw.key, raw.scancode, action, raw.extended, was_down) :
         \E r \in {KeyboardHookImpl(raw.key, raw.scancode, action, raw.character,
                                    raw.extended, was_down, os)} :
         LET a == r.synced
             info == [op |-> "key", key |-> raw.key,
                      physical |-> GetPhysicalKey(raw.scancode, raw.extended),
                      logical |-> GetLogicalKey(raw.key, raw.extended, raw.scancode),
                      character |-> raw.character,
                      down |-> action \in {WM_KEYDOWN, WM_SYSKEYDOWN},
                      was_down |-> was_down, os |-> os, type |-> r.type,
                      had_record |-> MapHas(pressingRecords_,
                                            GetPhysicalKey(raw.scancode, raw.extended)),
                      missing |-> r.missing,
                      response |-> r.registered, handled |-> FALSE]
         IN  \E stops \in (IF r.missing THEN BOOLEAN ELSE {FALSE}) :
               IF stops
               THEN /\ aborted' = TRUE
                    /\ pressingRecords_' = a.records
                    /\ critical_keys_' = a.critical
                    /\ sent_any_events' = a.any
                    /\ events' = a.sent
                    /\ hostDown' = Replay(hostDown, a.sent)
                    /\ hostLogical' = ReplayLogical(hostLogical, a.sent)
                    /\ callbacks' = <<>>
                    /\ last' = [info EXCEPT !.response = 0]
                    /\ UNCHANGED <<response_id_, pending_responses_, inflight,
                                   delivered>>
               ELSE LET st == WithNeutral(r.st)
                    IN  /\ aborted' = FALSE
                        /\ pressingRecords_' = st.records
                        /\ critical_keys_' = st.critical
                        /\ sent_any_events' = st.any
                        /\ response_id_' = r.response_id_
                        /\ pending_responses_' = r.pending
                        /\ events' = st.sent
                        /\ hostDown' = Replay(hostDown, st.sent)
                        /\ hostLogical' = ReplayLogical(hostLogical, st.sent)
                        /\ inflight' = inflight \cup Responses(st.sent)
                        /\ callbacks' = r.callbacks
                        /\ delivered' =
                             IF r.registered = 0 THEN delivered
                             ELSE MapPut(delivered, r.registered, Len(r.callbacks))
                        /\ last' = info

\* HandleResponse with the ledger entry left in place.
HandleResponse_KeepsEntry ==
    /\ ~aborted
    /\ \E response_id \in inflight, handled \in BOOLEAN :
         /\ callbacks' = <<[handled |-> handled, response |-> response_id,
                            entry_present |-> MapHas(pending_responses_, response_id)]>>
         /\ delivered' = [delivered EXCEPT ![response_id] = @ + 1]
         /\ inflight' = inflight \ {response_id}
         /\ events' = <<>>
         /\ last' = [NoOp EXCEPT !.op = "ack", !.response = response_id,
                               !.handled = handled]
         /\ UNCHANGED <<pressingRecords_, critical_keys_, response_id_,
                        pending_responses_, sent_any_events, aborted, hostDown,
                        hostLogical>>

\* HandleResponse giving the acknowledged response id back to the counter.
HandleResponse_ReusesId ==
    /\ ~aborted
    /\ \E response_id \in inflight, handled \in BOOLEAN :
         LET erased == IF MapHas(pending_responses_, response_id)
                       THEN MapErase(pending_responses_, response_id)
                       ELSE pending_responses_
         IN  /\ pending_responses_' = erased
             /\ response_id_' = IF response_id = response_id_
                                 THEN response_id_ - 1 ELSE response_id_
             /\ callbacks' = <<[handled |-> handled, response |-> response_id,
                                entry_present |-> MapHas(erased, response_id)]>>
             /\ delivered' = [delivered EXCEPT ![response_id] = @ + 1]
             /\ inflight' = inflight \ {response_id}
             /\ events' = <<>>
             /\ last' = [NoOp EXCEPT !.op = "ack", !.response = response_id,
                                   !.handled = handled]
             /\ UNCHANGED <<pressingRecords_, critical_keys_,
                            sent_any_events, aborted, hostDown, hostLogical>>

\* The host acknowledges a dispatched event: HandleResponse runs the pending
\* response's callback, which erases the ledger entry and then calls the
\* caller's callback.
HandleResponse ==
    /\ ~aborted
    /\ \E response_id \in inflight, handled \in BOOLEAN :
         LET erased == IF MapHas(pending_responses_, response_id)
                       THEN MapErase(pending_responses_, response_id)
                       ELSE pending_responses_
         IN  /\ pending_responses_' = erased
             /\ callbacks' = <<[handled |-> handled, response |-> response_id,
                                entry_present |-> MapHas(erased, response_id)]>>
             /\ delivered' = [delivered EXCEPT ![response_id] = @ + 1]
             /\ inflight' = inflight \ {response_id}
             /\ events' = <<>>
             /\ last' = [NoOp EXCEPT !.op = "ack", !.response = response_id,
                                   !.handled = handled]
             /\ UNCHANGED <<pressingRecords_, critical_keys_, response_id_,
                            sent_any_events, aborted, hostDown, hostLogical>>

Next == KeyboardHook \/ HandleResponse

Spec == Init /\ [][Next]_vars

(***************************************************************************)
(* Properties.  A step of KeyboardHook is one with last'.op = "key"; its   *)
(* raw input is in last', the state before it in the unprimed variables.   *)
(***************************************************************************)
NonNeutral(log) == SelectSeq(log, LAMBDA e : ~IsNeutral(e))
PrimaryOf(log) == SelectSeq(log, LAMBDA e : ~IsNeutral(e) /\ ~e.event.synthesized)
SynthesizedOf(log) == SelectSeq(log, LAMBDA e : e.event.synthesized)
EventsOfKey(log, physical) == SelectSeq(log, LAMBDA e : e.event.physical = physical)
TypesOf(log) == [i \in 1..Len(log) |-> log[i].event.type]
NeutralLog == <<[event |-> empty_event, response |-> 0]>>
ImeId == IdOfInt(VK_PROCESSKEY)

\* The log is causally consistent for a host that holds the keys of down.
RECURSIVE Causal(_, _)
Causal(down, log) ==
    IF log = <<>> THEN TRUE
    ELSE LET e == Head(log).event
         IN  /\ (e.type = "Down" => e.physical \notin down)
             /\ (e.type \in {"Up", "Repeat"} => e.physical \in down)
             /\ Causal(IF e.type = "Up" THEN down \ {e.physical}
                       ELSE down \cup {e.physical},
                       Tail(log))

\* C1: the non-neutral events dispatched by every KeyboardHook call continue
\* the host's history consistently: a Down only for a physical key that is up,
\* an Up or a Repeat only for a physical key that is down.
C1_CausalStream ==
    [][last'.op = "key" => Causal(hostDown, NonNeutral(events'))]_vars

\* C2: the press-state table holds an entry for exactly the physical keys whose
\* last event dispatched to the host was a Down or a Repeat.
C2_TableIffDown == DOMAIN pressingRecords_ = hostDown

\* C2 witness: a call that synthesized events and dispatched a primary Up
\* has completed, and some key is still down.
C2_Witness ==
    /\ last.op = "key" /\ ~aborted /\ last.type = "Up"
    /\ SynthesizedOf(events) # <<>>
    /\ hostDown # {}

\* C3: a repeat down on a physical key recorded down dispatches one primary
\* event, a Repeat carrying the recorded logical id, and leaves the record.
C3_RepeatKeepsLogical ==
    [][(/\ last'.op = "key" /\ last'.down /\ last'.was_down
        /\ MapHas(pressingRecords_, last'.physical))
       => /\ Len(PrimaryOf(events')) = 1
          /\ PrimaryOf(events')[1].event.type = "Repeat"
          /\ PrimaryOf(events')[1].event.physical = last'.physical
          /\ PrimaryOf(events')[1].event.logical = pressingRecords_[last'.physical]
          /\ MapHas(pressingRecords_', last'.physical)
          /\ pressingRecords_'[last'.physical] = pressingRecords_[last'.physical]]_vars

\* C3 witness: a repeat was dispatched whose freshly resolved logical id
\* differs from the logical id the Repeat event carries.
C3_Witness ==
    /\ last.op = "key" /\ last.down /\ last.was_down /\ last.had_record
    /\ Len(PrimaryOf(events)) = 1
    /\ PrimaryOf(events)[1].event.type = "Repeat"
    /\ PrimaryOf(events)[1].event.logical # last.logical

\* What an absorbed transition does: only the neutral event, the callback
\* called with true at once, nothing of the handler's state changed.
AbsorbedStep ==
    /\ events' = NeutralLog
    /\ callbacks' = <<[handled |-> TRUE, response |-> 0, entry_present |-> FALSE]>>
    /\ last'.response = 0
    /\ UNCHANGED <<pressingRecords_, critical_keys_, pending_responses_,
                   response_id_, inflight, delivered>>

\* C4: a non-repeat down on a physical key recorded down is absorbed.
C4_DuplicateDownAbsorbed ==
    [][(/\ last'.op = "key" /\ last'.down /\ ~last'.was_down
        /\ MapHas(pressingRecords_, last'.physical))
       => AbsorbedStep]_vars

\* C4 witness: a non-repeat down arrived for a key recorded down, while a
\* response was pending.
C4_Witness ==
    /\ last.op = "key" /\ last.down /\ ~last.was_down /\ last.had_record
    /\ DOMAIN pending_responses_ # {}

\* C5: an up on a physical key that is not recorded down is absorbed.
C5_StaleUpAbsorbed ==
    [][(/\ last'.op = "key" /\ ~last'.down
        /\ ~MapHas(pressingRecords_, last'.physical))
       => AbsorbedStep]_vars

\* C5 witness: an up arrived for a key that is not recorded down, while
\* another key was down and a response was pending.
C5_Witness ==
    /\ last.op = "key" /\ ~last.down /\ ~last.had_record
    /\ DOMAIN pressingRecords_ # {}
    /\ DOMAIN pending_responses_ # {}

\* The raw input of the step is a down that dispatches a primary Down of
\* caps lock, and the tracked toggle of caps lock, once flipped, differs from
\* the toggle the OS reports.
CapsDownOutOfSync ==
    /\ last'.op = "key" /\ last'.key = VK_CAPITAL /\ last'.down
    /\ ~MapHas(pressingRecords_, last'.physical)
    /\ (~critical_keys_[VK_CAPITAL].toggled_on)
         # HasMask(last'.os[VK_CAPITAL], kStateMaskToggled)

\* The last event of the step is the primary Down of the key of the step, and
\* the tracked toggle of caps lock is the one the OS reports.
CapsDownDone ==
    /\ ~events'[Len(events')].event.synthesized
    /\ events'[Len(events')].event.type = "Down"
    /\ events'[Len(events')].event.physical = last'.physical
    /\ Len(PrimaryOf(events')) = 1
    /\ critical_keys_'[VK_CAPITAL].toggled_on
         = HasMask(last'.os[VK_CAPITAL], kStateMaskToggled)

\* C6, as claimed: on such a caps-lock keydown the events synthesized for caps
\* lock are one release (only if it is recorded pressed) and then one press,
\* before the primary Down, and the tracked toggle ends as the OS reports it.
C6_CapsToggleReleaseThenPress ==
    [][CapsDownOutOfSync
       => /\ TypesOf(SynthesizedOf(EventsOfKey(events', last'.physical)))
               = (IF MapHas(pressingRecords_, last'.physical)
                  THEN <<"Up">> ELSE <<>>) \o <<"Down">>
          /\ CapsDownDone]_vars

\* C6, amended: on such a caps-lock keydown the events synthesized for caps
\* lock are one release (only if it is recorded pressed), then one press, and
\* then, when the OS reports caps lock pressed, one more release; all of them
\* before the primary Down, and the tracked toggle ends as the OS reports it.
C6_CapsTogglePressThenRelease ==
    [][CapsDownOutOfSync
       => /\ TypesOf(SynthesizedOf(EventsOfKey(events', last'.physical)))
               = (IF MapHas(pressingRecords_, last'.physical)
                  THEN <<"Up">> ELSE <<>>) \o <<"Down">>
                 \o (IF HasMask(last'.os[VK_CAPITAL], kStateMaskPressed)
                     THEN <<"Up">> ELSE <<>>)
          /\ CapsDownDone]_vars

\* C6 witness: a caps-lock keydown was dispatched after a synthesized press
\* and a synthesized release of caps lock.
C6_Witness ==
    /\ last.op = "key" /\ last.key = VK_CAPITAL /\ last.down /\ ~last.had_record
    /\ TypesOf(EventsOfKey(events, last.physical)) = <<"Down", "Up", "Down">>
    /\ critical_keys_[VK_CAPITAL].toggled_on
         = HasMask(last.os[VK_CAPITAL], kStateMaskToggled)

\* The raw input of the last call was absorbed: a duplicate down, a stale up,
\* or a down that resolves to the IME sentinel.
LastAbsorbed ==
    \/ last.down /\ last.had_record /\ ~last.was_down
    \/ ~last.down /\ ~last.had_record
    \/ last.down /\ ~last.had_record /\ last.logical = ImeId

\* C7: every KeyboardHook call dispatches at least one event; when it
\* dispatched no primary and no synthesized event (as for an absorbed input)
\* it dispatched exactly the neutral event, with a null callback and no
\* response id; when it dispatched any, it dispatched no neutral event.
C7_NeutralEvent ==
    last.op = "key"
    => /\ Len(events) >= 1
       /\ (LastAbsorbed => events = NeutralLog)
       /\ (NonNeutral(events) = <<>> => events = NeutralLog /\ last.response = 0)
       /\ (NonNeutral(events) # <<>> => NonNeutral(events) = events)

\* C7 witness: an absorbed input was answered by the neutral event alone,
\* while a key was down.
C7_Witness ==
    /\ last.op = "key" /\ LastAbsorbed /\ events = NeutralLog
    /\ hostDown # {}

\* C8: each KeyboardHook call either calls the callback once, at once, with
\* true (absorbed input) or registers one pending response for it and does
\* not call it; each acknowledgment calls the callback of its response once,
\* with the host's handled value, after the ledger entry is gone; and no
\* callback is ever called twice.
C8_CallbackExactlyOnce ==
    [][/\ (last'.op = "key"
           => \/ /\ callbacks' = <<[handled |-> TRUE, response |-> 0,
                                    entry_present |-> FALSE]>>
                 /\ pending_responses_' = pending_responses_
              \/ /\ callbacks' = <<>>
                 /\ last'.response \in DOMAIN pending_responses_'
                 /\ last'.response \notin DOMAIN pending_responses_
                 /\ last'.response \in inflight'
                 /\ delivered'[last'.response] = 0)
       /\ (last'.op = "ack"
           => /\ callbacks' = <<[handled |-> last'.handled,
                                 response |-> last'.response,
                                 entry_present |-> FALSE]>>
              /\ delivered'[last'.response] = 1)
       /\ \A id \in DOMAIN delivered' : delivered'[id] <= 1]_vars

\* C9: the response id of a primary event is not 0, is greater than every
\* response id handed out before, and is not the id of a pending response.
C9_ResponseIdsIncrease ==
    [][last'.op = "key"
       => \A id \in Responses(events') :
             /\ id # 0
             /\ id \notin DOMAIN pending_responses_
             /\ id \in DOMAIN pending_responses_'
             /\ \A old \in DOMAIN delivered : old < id]_vars

\* C9 witness: a primary event got a response id while the response of an
\* earlier one was pending and that of another had been acknowledged.
C9_Witness ==
    /\ last.op = "key" /\ last.response # 0
    /\ \E old \in DOMAIN pending_responses_ : old < last.response
    /\ \E old \in DOMAIN delivered : delivered[old] = 1

\* What ignoring a transition entirely is: the callback called with true, no
\* primary or synthesized event, the table and the registry unchanged.
IgnoredEntirely ==
    /\ events' = NeutralLog
    /\ callbacks' = <<[handled |-> TRUE, response |-> 0, entry_present |-> FALSE]>>
    /\ UNCHANGED <<pressingRecords_, critical_keys_>>

\* C10, as claimed: every transition whose freshly resolved logical id is the
\* IME sentinel is ignored entirely.
C10_ImeAlwaysIgnored ==
    [][(last'.op = "key" /\ last'.logical = ImeId) => IgnoredEntirely]_vars

\* C10, amended: a transition whose freshly resolved logical id is the IME
\* sentinel is ignored entirely when the physical key is not recorded down;
\* when it is recorded down (with a logical id that is not the sentinel), a
\* non-repeat down is absorbed as any duplicate down is, and a repeat or an
\* up is not ignored for the sentinel: the callback is not called, a repeat
\* dispatches one primary Repeat carrying the recorded id, and an up
\* dispatches one primary Up carrying the recorded id, unless the
\* pressed-state synchronization of the call has released the key by a
\* synthesized Up, the entry to erase is missing and the process is stopped.
C10_ImeIgnoredUnlessRecorded ==
    [][(last'.op = "key" /\ last'.logical = ImeId)
       => IF ~MapHas(pressingRecords_, last'.physical)
             \/ (last'.down /\ ~last'.was_down)
          THEN IgnoredEntirely
          ELSE /\ pressingRecords_[last'.physical] # ImeId
               /\ callbacks' = <<>>
               /\ Len(PrimaryOf(events')) <= 1
               /\ \A i \in 1..Len(PrimaryOf(events')) :
                     /\ PrimaryOf(events')[i].event.type
                          = (IF last'.down THEN "Repeat" ELSE "Up")
                     /\ PrimaryOf(events')[i].event.physical = last'.physical
                     /\ PrimaryOf(events')[i].event.logical
                          = pressingRecords_[last'.physical]
               /\ (last'.down => Len(PrimaryOf(events')) = 1)
               /\ (Len(PrimaryOf(events')) = 0
                     => /\ aborted' /\ last'.missing
                        /\ \E i \in 1..Len(events') :
                              /\ events'[i].event.synthesized
                              /\ events'[i].event.type = "Up"
                              /\ events'[i].event.physical = last'.physical)]_vars

\* C10 witness: an up resolving to the IME sentinel, on the left shift key
\* recorded down, was dispatched as a primary Up carrying the recorded id.
C10_Witness ==
    /\ last.op = "key" /\ last.logical = ImeId /\ ~last.down /\ last.had_record
    /\ last.physical = critical_keys_[VK_LSHIFT].physical_key
    /\ Len(PrimaryOf(events)) = 1
    /\ PrimaryOf(events)[1].event.type = "Up"
    /\ PrimaryOf(events)[1].event.logical # ImeId

\* C11: an acknowledgment removes the acknowledged entry from the ledger and
\* nothing else of it, calls the caller's callback once, dispatches no event,
\* and leaves the press-state table, the registry and the response-id counter
\* as they were: what a later raw input dispatches is computed from these
\* three alone, so it is the same however the earlier events were acknowledged.
C11_AckOnlyLedger ==
    [][last'.op = "ack"
       => /\ last'.response \in DOMAIN pending_responses_
          /\ pending_responses_' = MapErase(pending_responses_, last'.response)
          /\ Len(callbacks') = 1
          /\ callbacks'[1].response = last'.response
          /\ events' = <<>>
          /\ UNCHANGED <<pressingRecords_, critical_keys_, response_id_,
                         hostDown>>]_vars

\* C11 witness: the latest response was acknowledged while an earlier one was
\* still pending and a key was recorded down.
C11_Witness ==
    /\ last.op = "ack" /\ last.response = response_id_
    /\ \E old \in DOMAIN pending_responses_ : old < last.response
    /\ DOMAIN pressingRecords_ # {}

\* C12: in every KeyboardHook call the events before the last one are the
\* synchronization engine's; every synthesized event has an empty character
\* and a null acknowledgment; every primary event has the synthesized flag
\* clear and the response id just taken from the counter, under which the
\* ledger gets its one new entry; the ledger and the counter change by the
\* primary event alone.
C12_SynthesizedUntracked ==
    [][last'.op = "key"
       => /\ \A i \in 1..Len(events') :
                LET e == events'[i]
                IN  /\ (i < Len(events') => e.event.synthesized)
                    /\ (e.event.synthesized
                          => e.event.character = empty_character /\ e.response = 0)
                    /\ (~e.event.synthesized /\ ~IsNeutral(e)
                          => /\ e.response = response_id_' /\ e.response # 0
                             /\ e.response \notin DOMAIN pending_responses_
                             /\ e.response \in DOMAIN pending_responses_')
          /\ Len(PrimaryOf(events')) <= 1
          /\ DOMAIN pending_responses_'
               = DOMAIN pending_responses_ \cup Responses(events')
          /\ response_id_' = response_id_ + Len(PrimaryOf(events'))]_vars

\* C12 witness: a call dispatched two synthesized events and then a primary
\* event, while the response of an earlier primary event was pending.
C12_Witness ==
    /\ last.op = "key" /\ last.response # 0
    /\ Len(SynthesizedOf(events)) >= 2
    /\ Len(PrimaryOf(events)) = 1
    /\ Cardinality(DOMAIN pending_responses_) >= 2

\* The physical keys of the synthesized events of a log.
SynthesizedKeys(log) ==
    {log[i].event.physical : i \in {j \in 1..Len(log) : log[j].event.synthesized}}

\* C13: as long as no raw input has been processed (none has taken a response
\* id), every critical key has the physical and the logical identifier 0; and
\* the first raw input that is processed synthesizes no event for a critical
\* key other than the one it carries, whatever the OS reports.
C13_UnseenKeysSkipped ==
    [][response_id_ = 1
       => /\ \A vk \in CriticalVKs :
                /\ critical_keys_[vk].physical_key = ZeroId
                /\ critical_keys_[vk].logical_key = ZeroId
          /\ (last'.op = "key"
                => SynthesizedKeys(events') \subseteq {last'.physical})]_vars

\* The UTF-8 bytes of the code points of the model's raw characters.
ExpectedUtf8 ==
    (0 :> <<>>) @@ (233 :> <<195, 169>>) @@ (128512 :> <<240, 159, 152, 128>>)

\* C14: a primary Up carries the empty character whatever character the raw
\* input supplied; a primary Down or Repeat carries the UTF-8 bytes of the
\* supplied code point with the dead-key flag taken off, none for 0.
C14_CharacterPayload ==
    last.op = "key"
    => \A i \in 1..Len(PrimaryOf(events)) :
          PrimaryOf(events)[i].event.character
            = IF PrimaryOf(events)[i].event.type = "Up"
              THEN <<>>
              ELSE ExpectedUtf8[last.character.code]

\* C14 witness: a primary Up was dispatched for a raw input that supplied a
\* character.
C14_Witness ==
    /\ last.op = "key" /\ ~last.down /\ last.character.code # 0
    /\ Len(PrimaryOf(events)) = 1
    /\ PrimaryOf(events)[1].event.type = "Up"
    /\ PrimaryOf(events)[1].event.character = <<>>

\* C15: the process is never stopped, and no KeyboardHook call reaches the
\* erase of the press-state entry of a primary Up (after both passes) without
\* the entry of its physical key in the table.
C15_AssertNeverFails ==
    /\ ~aborted
    /\ (last.op = "key" => ~last.missing)

\* The step processes a raw input: it is not absorbed and not left to the IME.
Processed == last'.op = "key" /\ last'.type \in {"Down", "Up", "Repeat"}

\* seq begins with pre.
StartsWith(seq, pre) == Len(seq) >= Len(pre) /\ SubSeq(seq, 1, Len(pre)) = pre

\* C16: when a raw input of another key is processed while the tracked toggle
\* of a toggle-tracked critical key differs from the toggle the OS reports,
\* the events synthesized for that key begin with a release (only if it is
\* recorded pressed) and then a press, and come before the primary event; and
\* after every processed raw input the tracked toggle of every toggle-tracked
\* critical key is the toggle the OS reported.
C16_ToggleSynchronized ==
    [][Processed
       => \A vk \in ToggleVKs :
            /\ critical_keys_'[vk].toggled_on
                 = HasMask(last'.os[vk], kStateMaskToggled)
            /\ (/\ vk # last'.key
                /\ critical_keys_[vk].physical_key # ZeroId
                /\ critical_keys_[vk].toggled_on
                     # HasMask(last'.os[vk], kStateMaskToggled))
               => /\ StartsWith(
                        TypesOf(SynthesizedOf(
                            EventsOfKey(events', critical_keys_[vk].physical_key))),
                        (IF MapHas(pressingRecords_, critical_keys_[vk].physical_key)
                         THEN <<"Up">> ELSE <<>>) \o <<"Down">>)
                  /\ \A i \in 1..Len(events') :
                        events'[i].event.synthesized
                          \/ (i = Len(events') /\ ~IsNeutral(events'[i]))]_vars

\* C16 witness: the input of another key was processed, and caps lock, which
\* was recorded pressed with a tracked toggle that was not the OS's, was
\* released and pressed by synthesized events before the primary event.
C16_Witness ==
    /\ last.op = "key" /\ last.key # VK_CAPITAL /\ last.response # 0
    /\ StartsWith(TypesOf(SynthesizedOf(
                      EventsOfKey(events, critical_keys_[VK_CAPITAL].physical_key))),
                  <<"Up", "Down">>)
    /\ ~events[Len(events)].event.synthesized
    /\ critical_keys_[VK_CAPITAL].toggled_on
         = HasMask(last.os[VK_CAPITAL], kStateMaskToggled)

\* The critical keys that are tracked for their pressed state: all of them
\* (check_pressed is set for every key InitCriticalKeys creates).
PressedVKs == {vk \in CriticalVKs : critical_keys_[vk].check_pressed}

\* C17: after a raw input is processed, every pressed-tracked critical key
\* with a known physical key, other than the key of the raw input, has an
\* entry in the press-state table exactly when the OS reported it pressed.
C17_PressedSynchronized ==
    [][Processed
       => \A vk \in PressedVKs :
            (vk # last'.key /\ critical_keys_'[vk].physical_key # ZeroId)
            => (MapHas(pressingRecords_', critical_keys_'[vk].physical_key)
                  <=> HasMask(last'.os[vk], kStateMaskPressed))]_vars

\* Every Up of the log that releases a key the host holds down carries the
\* logical key under which the host holds it (logical: the logical keys of
\* the keys the host holds down, see ReplayLogical).  A Repeat carries the
\* logical key of the record, which is that of the last Down of its key.
RECURSIVE UpsCarryLastDown(_, _)
UpsCarryLastDown(logical, log) ==
    IF log = <<>> THEN TRUE
    ELSE LET e == Head(log).event
         IN  /\ (e.type = "Up" /\ MapHas(logical, e.physical)
                  => logical[e.physical] = e.logical)
             /\ UpsCarryLastDown(IF e.type = "Up"
                                 THEN MapErase(logical, e.physical)
                                 ELSE MapPut(logical, e.physical, e.logical),
                                 Tail(log))

\* C18: every Up dispatched for a physical key that is down, primary or
\* synthesized, carries the logical id of the last Down dispatched for that
\* physical key.
C18_UpCarriesRecordedLogical ==
    [][last'.op = "key"
       => UpsCarryLastDown(hostLogical, NonNeutral(events'))]_vars

\* Every critical key with a known physical key has the tracked toggle the OS
\* state os reports (when tracked for it) and an entry in the press-state
\* table exactly when os reports it pressed.
InSync(os) ==
    \A vk \in CriticalVKs :
        critical_keys_[vk].physical_key # ZeroId
        => /\ (critical_keys_[vk].check_toggled
                => critical_keys_[vk].toggled_on = HasMask(os[vk], kStateMaskToggled))
           /\ (critical_keys_[vk].check_pressed
                => (MapHas(pressingRecords_, critical_keys_[vk].physical_key)
                      <=> HasMask(os[vk], kStateMaskPressed)))

\* The step synthesizes nothing, leaves the registry, and changes the table
\* for the physical key of its raw input only.
QuietStep ==
    /\ SynthesizedOf(events') = <<>>
    /\ critical_keys_' = critical_keys_
    /\ \A p \in (DOMAIN pressingRecords_ \cup DOMAIN pressingRecords_') \ {last'.physical} :
          /\ MapHas(pressingRecords_, p) /\ MapHas(pressingRecords_', p)
          /\ pressingRecords_'[p] = pressingRecords_[p]

\* The step processes the raw input of a key that is not critical, with the
\* table and the registry agreeing with the OS state it reads.
ProcessedInSync ==
    Processed /\ last'.key \notin CriticalVKs /\ InSync(last'.os)

\* The step processes the raw input of a key that is not critical, right
\* after another such input was processed under the same OS state.
ProcessedAgain ==
    /\ Processed /\ last'.key \notin CriticalVKs
    /\ last.op = "key" /\ last.type \in {"Down", "Up", "Repeat"}
    /\ last.key \notin CriticalVKs
    /\ last.os = last'.os

\* C19: a processed raw input of a non-critical key that finds every critical
\* key in agreement with the OS synthesizes nothing and changes the table and
\* the registry by its primary event only; and the second of two consecutive
\* processed inputs of non-critical keys under one OS state synthesizes nothing.
C19_Quiescent ==
    [][/\ (ProcessedInSync => QuietStep)
       /\ (ProcessedAgain => SynthesizedOf(events') = <<>>)]_vars

\* C20: between operations the ledger holds an entry for exactly the response
\* ids of the primary events dispatched and not yet acknowledged, each under
\* its own id; the callback of a pending response has not been called, and
\* that of an acknowledged one has been called once.
C20_LedgerIsInflight ==
    /\ DOMAIN pending_responses_ = inflight
    /\ \A id \in DOMAIN pending_responses_ :
          /\ pending_responses_[id].response_id = id
          /\ id \in DOMAIN delivered /\ delivered[id] = 0
    /\ \A id \in DOMAIN delivered :
          id \notin DOMAIN pending_responses_ => delivered[id] = 1

\* C20 witness: an absorbed input has just left a ledger of two pending
\* responses as it was.
C20_Witness ==
    /\ last.op = "key" /\ last.response = 0 /\ events = NeutralLog
    /\ Cardinality(DOMAIN pending_responses_) >= 2
    /\ inflight = DOMAIN pending_responses_

====
